---- MODULE Spec2Model ----
(***************************************************************************)
(* Model of xds/internal/testutils/balancer.go: the pool of TestSubConns,  *)
(* the mock TestClientConn with its five buffered channels, the            *)
(* testConstBalancer fixture and the IsRoundRobin conformance checker.     *)
(***************************************************************************)
EXTENDS Integers, Sequences, FiniteSets, TLC

\* ------------------------------------------------------------------ bounds
\* Number of pool handles a pick function may return in the IsRoundRobin runs.
NumPickHandles == 3
\* Longest want slice tried.
MaxWant == 3
\* Reads the consumer (the test's assertion logic) performs in one run.
MaxReads == 2
\* RemoveSubConn calls in one run.
MaxRemoves == 11
\* UpdateState calls in one run.
MaxUpdates == 2
\* Resolver updates without addresses delivered to the testConstBalancer in one run.
MaxEmptyUpdates == 2
\* Calls made on the second TestClientConn in one run.
MaxCalls2 == 2

\* ------------------------------------------------------- program constants
TestSubConnsCount == 16
\* capacity of NewSubConnAddrsCh, NewSubConnCh and RemoveSubConnCh
HistoryCap == 10
\* capacity of NewPickerCh and NewStateCh
LatestCap == 1

\* --------------------------------------------------------------- the pool
\* TestSubConn{id: fmt.Sprintf("sc%d", i)}: a handle is identified by its index.
TestSubConn(i) == [id |-> i]

\* TestSubConns after init(): TestSubConns[i] of the source is TestSubConns[i+1].
TestSubConns == [i \in 1..TestSubConnsCount |-> TestSubConn(i - 1)]

VARIABLES
  \* TestClientConn
  subConnIdx, NewSubConnAddrsCh, NewSubConnCh, RemoveSubConnCh,
  NewPickerCh, NewStateCh,
  \* the balancer built on the TestClientConn (a policy under test or the
  \* testConstBalancer) and the goroutine running it: its position, the locals
  \* of the call in progress, what the last call that returns a value returned
  balancer, pc, call, ret,
  \* the goroutine reading the channels: the last state and picker received
  gotState, gotPicker,
  \* history: calls made so far, resolver updates with and without addresses
  \* delivered to the testConstBalancer, reads made so far
  nNewSubConn, nRemoves, nUpdates, nAddrUpdates, nEmptyUpdates, nReads,
  \* history: the balancer.State passed to the latest UpdateState call
  published,
  \* IsRoundRobin: arguments, locals, position, returned error, f's returns
  want, wantSet, gotSliceFirstIteration, gotSliceSecondIteration,
  rrpc, rrErr, picked,
  \* the testClosure whose next method is passed to IsRoundRobin as f
  tc,
  \* a second TestClientConn of the same process, what its last NewSubConn
  \* call returned, history: calls made on it so far
  tcc2, ret2, nCalls2

tccVars == <<subConnIdx, NewSubConnAddrsCh, NewSubConnCh, RemoveSubConnCh,
             NewPickerCh, NewStateCh>>
procVars == <<balancer, pc, call, ret, gotState, gotPicker,
              nNewSubConn, nRemoves, nUpdates, nAddrUpdates, nEmptyUpdates, nReads,
              published>>
rrVars == <<want, wantSet, gotSliceFirstIteration, gotSliceSecondIteration,
            rrpc, rrErr, picked, tc>>
tcc2Vars == <<tcc2, ret2, nCalls2>>
vars == <<tccVars, procVars, rrVars, tcc2Vars>>

\* ============================================================ IsRoundRobin
PickHandles == {TestSubConns[i] : i \in 1..NumPickHandles}

RECURSIVE SeqsUpTo(_, _)
SeqsUpTo(S, n) ==
  IF n = 0 THEN {<<>>}
  ELSE LET shorter == SeqsUpTo(S, n - 1)
       IN shorter \cup {Append(s, x) : s \in {t \in shorter : Len(t) = n - 1}, x \in S}

\* the error value nil
NoErr == [msg |-> "nil"]

\* the map wantSet before the first loop: every key reads as 0
EmptyWantSet == [h \in PickHandles |-> 0]

\* for _, sc := range want { wantSet[sc]++ }
RECURSIVE CountWant(_, _)
CountWant(w, m) ==
  IF w = <<>> THEN m
  ELSE CountWant(Tail(w), [m EXCEPT ![Head(w)] = @ + 1])

\* mutant: the error is built before got is appended
ErrFirstIterationBeforeAppend(w, first) ==
  [msg |-> "non-roundrobin want", want |-> w,
   result |-> SubSeq(first, 1, Len(first) - 1)]

\* fmt.Errorf("non-roundrobin want: %v, result: %v", want, gotSliceFirstIteration)
ErrFirstIteration(w, first) ==
  [msg |-> "non-roundrobin want", want |-> w, result |-> first]

\* fmt.Errorf("non-roundrobin, first iter: %v, second iter: %v", ...)
ErrSecondIteration(first, second) ==
  [msg |-> "non-roundrobin, first iter", first |-> first, second |-> second]

\* mutant: the second iteration is compared against want
SecondIterationWOfWant(first, second) == want[(Len(second) % Len(want)) + 1]

\* the w the inner loop of the second iteration compares the next g against
SecondIterationW(first, second) == first[(Len(second) % Len(first)) + 1]

\* mutant: one extra occurrence is tolerated
CountNegativeOffByOne(m, got) == m[got] < -1

\* wantSet[got] < 0
CountNegative(m, got) == m[got] < 0

\* w != g
Differs(w, g) == w # g

\* mutant: the outer loop runs once
SecondIterationCallsOnce(first) == Len(first)

\* for i := 0; i < 2; i++ { for _, w := range gotSliceFirstIteration
SecondIterationCalls(first) == 2 * Len(first)

\* a testClosure with slice r and index i (from 0)
testClosure(r, i) == [r |-> r, i |-> i]

\* no closure: f is not a testClosure's next
NoClosure == testClosure(<<>>, 0)

\* testClosure.next: ret := tc.r[tc.i]; tc.i = (tc.i + 1) % len(tc.r); return ret
next(c) ==
  [ret |-> c.r[c.i + 1], tc |-> testClosure(c.r, (c.i + 1) % Len(c.r))]

\* the slices holding the elements of w with the same multiplicities
PermutationsOf(w) ==
  {r \in [1..Len(w) -> {w[j] : j \in 1..Len(w)}] :
     \A h \in PickHandles :
       Cardinality({j \in 1..Len(w) : r[j] = h}) = Cardinality({j \in 1..Len(w) : w[j] = h})}

\* the closures round robin over w: a permutation of w, started anywhere
Closures(w) ==
  IF Len(w) = 0 THEN {NoClosure}
  ELSE {testClosure(r, i) : r \in PermutationsOf(w), i \in 0..(Len(w) - 1)}

\* entry of IsRoundRobin: build wantSet; with an empty want both loops are
\* empty and the function returns nil at once
IsRoundRobinCall ==
  /\ rrpc = "start"
  /\ wantSet' = CountWant(want, EmptyWantSet)
  /\ IF Len(want) = 0
       THEN rrpc' = "done"
       ELSE rrpc' = "first"
  /\ UNCHANGED <<want, gotSliceFirstIteration, gotSliceSecondIteration, rrErr, picked, tc>>
  /\ UNCHANGED <<tccVars, procVars, tcc2Vars>>

\* one pass of the first loop with got the value f() returned: append,
\* decrement, test
FirstIteration(got) ==
  /\ rrpc = "first"
  /\ LET first == Append(gotSliceFirstIteration, got)
         m == [wantSet EXCEPT ![got] = @ - 1]
     IN /\ picked' = Append(picked, got)
        /\ gotSliceFirstIteration' = first
        /\ wantSet' = m
        /\ IF CountNegative(m, got)
             THEN /\ rrErr' = ErrFirstIteration(want, first)
                  /\ rrpc' = "done"
             ELSE /\ rrErr' = rrErr
                  /\ rrpc' = IF Len(first) = Len(want) THEN "second" ELSE "first"
  /\ UNCHANGED <<want, gotSliceSecondIteration>>
  /\ UNCHANGED <<tccVars, procVars, tcc2Vars>>

\* got := f() with f any function into the pool
FirstIterationPick ==
  /\ \E got \in PickHandles : FirstIteration(got)
  /\ UNCHANGED tc

\* got := f() with f the next method of tc
FirstIterationNext ==
  /\ Len(tc.r) > 0
  /\ FirstIteration(next(tc).ret)
  /\ tc' = next(tc).tc

\* one pass of the inner loop of the second iteration with g the value f()
\* returned: append, compare
SecondIteration(g) ==
  /\ rrpc = "second"
  /\ LET w == SecondIterationW(gotSliceFirstIteration, gotSliceSecondIteration)
         second == Append(gotSliceSecondIteration, g)
     IN /\ picked' = Append(picked, g)
        /\ gotSliceSecondIteration' = second
        /\ IF Differs(w, g)
             THEN /\ rrErr' = ErrSecondIteration(gotSliceFirstIteration, second)
                  /\ rrpc' = "done"
             ELSE /\ rrErr' = rrErr
                  /\ rrpc' = IF Len(second) = SecondIterationCalls(gotSliceFirstIteration)
                               THEN "done" ELSE "second"
  /\ UNCHANGED <<want, wantSet, gotSliceFirstIteration>>
  /\ UNCHANGED <<tccVars, procVars, tcc2Vars>>

\* g := f() with f any function into the pool
SecondIterationPick ==
  /\ \E g \in PickHandles : SecondIteration(g)
  /\ UNCHANGED tc

\* g := f() with f the next method of tc
SecondIterationNext ==
  /\ Len(tc.r) > 0
  /\ SecondIteration(next(tc).ret)
  /\ tc' = next(tc).tc

\* ========================================================== TestClientConn
\* the nil SubConn
Nil == [id |-> -1]

\* ErrTestConstPicker
ErrTestConstPicker == "const picker error"

\* &TestConstPicker{Err: err, SC: sc}
TestConstPicker(err, sc) == [Err |-> err, SC |-> sc]

\* TestConstPicker.Pick: the error when one is set, else the const SubConn
Pick(tcp) ==
  IF tcp.Err # "nil"
    THEN [SubConn |-> Nil, err |-> tcp.Err]
    ELSE [SubConn |-> tcp.SC, err |-> "nil"]

\* balancer.State{ConnectivityState: s, Picker: p}
State(s, p) == [ConnectivityState |-> s, Picker |-> p]

\* the balancer.State the testConstBalancer publishes
ConstBalancerState == State("Ready", TestConstPicker(ErrTestConstPicker, Nil))

\* the balancer.State values a policy under test publishes in the runs
PolicyStates ==
  << State("Connecting", TestConstPicker("nil", TestSubConns[1])),
     State("TransientFailure", TestConstPicker(ErrTestConstPicker, Nil)) >>

\* the balancer.State passed to the k-th UpdateState call (k from 1): the
\* values alternate, so that a publication differs from the one before it
UpdateStateArgs(k) == {PolicyStates[((k - 1) % Len(PolicyStates)) + 1]}

\* the address slice passed with the creation request made at cursor k: the
\* requests carry distinct addresses, so that a buffered slice tells its request
Addresses(k) == <<[Addr |-> k]>>

\* the address slices a caller passes when subConnIdx is k
AddressArgs(k) == {Addresses(k)}

\* the SubConn passed to the k-th RemoveSubConn call (k from 0): a pool
\* member, created by this TestClientConn or not
RemoveArgs(k) == {TestSubConns[(k % TestSubConnsCount) + 1]}

\* mutant: the channel takes the value whatever it holds already
TrySendUnbounded(ch, v, cap) == Append(ch, v)

\* mutant: a full channel drops its oldest value to take the new one
TrySendDropOldest(ch, v, cap) ==
  IF Len(ch) < cap THEN Append(ch, v) ELSE Append(Tail(ch), v)

\* select { case ch <- v: default: } on a channel of capacity cap
TrySend(ch, v, cap) == IF Len(ch) < cap THEN Append(ch, v) ELSE ch

\* mutant: the buffered value is not drained
TryRecvNothing(ch) == ch

\* select { case <-ch: default: }
TryRecv(ch) == IF Len(ch) > 0 THEN Tail(ch) ELSE ch

\* ch <- v can proceed: the buffer has room (nobody receives unbuffered here)
CanSend(ch, cap) == Len(ch) < cap

\* no call in progress
NoCall == [op |-> "none"]

\* nothing returned yet
NoRet == [op |-> "none"]

\* nothing published yet
NoState == [ConnectivityState |-> "none", Picker |-> "none"]

\* nothing received yet
NoValue == [val |-> "none", pub |-> 0]

\* sc := TestSubConns[tcc.subConnIdx]
ClaimSubConn(idx) == TestSubConns[idx + 1]

\* mutant: the cursor is not advanced
AdvanceCursorStuck(idx) == idx

\* tcc.subConnIdx++
AdvanceCursor(idx) == idx + 1

\* mutant: an exhausted pool is indexed modulo its size, handing out
\* TestSubConns[0] again
NewSubConnBeginWraps(a) ==
  /\ pc = "idle"
  /\ call' = [op |-> "NewSubConn", a |-> a,
               sc |-> TestSubConns[(subConnIdx % TestSubConnsCount) + 1]]
  /\ subConnIdx' = (subConnIdx % TestSubConnsCount) + 1
  /\ NewSubConnAddrsCh' = TrySend(NewSubConnAddrsCh, a, HistoryCap)
  /\ pc' = "NewSubConn_sc"
  /\ UNCHANGED <<ret, NewSubConnCh, RemoveSubConnCh, NewPickerCh, NewStateCh>>
  /\ nNewSubConn' = nNewSubConn + 1
  /\ UNCHANGED <<balancer, gotState, gotPicker, nRemoves, nUpdates, nReads, published, rrVars, tcc2Vars>>

\* NewSubConn, lines 98-105: claim TestSubConns[subConnIdx], advance the
\* cursor, log, offer a to NewSubConnAddrsCh. Indexing past the pool panics.
NewSubConnBegin(a) ==
  /\ pc = "idle"
  /\ IF subConnIdx >= TestSubConnsCount
       THEN /\ pc' = "panicked"
            /\ ret' = [op |-> "NewSubConn", panic |-> "index out of range"]
            /\ UNCHANGED <<call, tccVars>>
       ELSE /\ call' = [op |-> "NewSubConn", a |-> a, sc |-> ClaimSubConn(subConnIdx)]
            /\ subConnIdx' = AdvanceCursor(subConnIdx)
            /\ NewSubConnAddrsCh' = TrySend(NewSubConnAddrsCh, a, HistoryCap)
            /\ pc' = "NewSubConn_sc"
            /\ UNCHANGED <<ret, NewSubConnCh, RemoveSubConnCh, NewPickerCh, NewStateCh>>
  /\ nNewSubConn' = nNewSubConn + 1
  /\ UNCHANGED <<balancer, gotState, gotPicker, nRemoves, nUpdates, nReads, published, rrVars, tcc2Vars>>

\* a policy under test calls tcc.NewSubConn(a, o)
NewSubConn ==
  /\ balancer = "policy"
  /\ \E a \in AddressArgs(subConnIdx) : NewSubConnBegin(a)
  /\ UNCHANGED <<nAddrUpdates, nEmptyUpdates>>

\* mutant: a full NewSubConnCh drops its oldest SubConn to take the new one,
\* while NewSubConnAddrsCh keeps its oldest
NewSubConnSendSCDropOldest ==
  /\ pc = "NewSubConn_sc"
  /\ NewSubConnCh' = TrySendDropOldest(NewSubConnCh, call.sc, HistoryCap)
  /\ ret' = IF balancer = "testConstBalancer"
              THEN [op |-> "UpdateClientConnState", err |-> "nil"]
              ELSE [op |-> "NewSubConn", sc |-> call.sc, err |-> "nil"]
  /\ pc' = "idle"
  /\ call' = NoCall
  /\ UNCHANGED <<subConnIdx, NewSubConnAddrsCh, RemoveSubConnCh, NewPickerCh, NewStateCh>>
  /\ UNCHANGED <<balancer, gotState, gotPicker, nNewSubConn, nRemoves, nUpdates,
                 nAddrUpdates, nEmptyUpdates, nReads, published, rrVars, tcc2Vars>>

\* NewSubConn, lines 107-112: offer sc to NewSubConnCh, return sc, nil.
\* The testConstBalancer drops the pair and returns nil itself.
NewSubConnSendSC ==
  /\ pc = "NewSubConn_sc"
  /\ NewSubConnCh' = TrySend(NewSubConnCh, call.sc, HistoryCap)
  /\ ret' = IF balancer = "testConstBalancer"
              THEN [op |-> "UpdateClientConnState", err |-> "nil"]
              ELSE [op |-> "NewSubConn", sc |-> call.sc, err |-> "nil"]
  /\ pc' = "idle"
  /\ call' = NoCall
  /\ UNCHANGED <<subConnIdx, NewSubConnAddrsCh, RemoveSubConnCh, NewPickerCh, NewStateCh>>
  /\ UNCHANGED <<balancer, gotState, gotPicker, nNewSubConn, nRemoves, nUpdates,
                 nAddrUpdates, nEmptyUpdates, nReads, published, rrVars, tcc2Vars>>

\* RemoveSubConn: log, offer sc to RemoveSubConnCh
RemoveSubConn ==
  /\ balancer = "policy"
  /\ pc = "idle"
  /\ nRemoves < MaxRemoves
  /\ \E sc \in RemoveArgs(nRemoves) :
       RemoveSubConnCh' = TrySend(RemoveSubConnCh, sc, HistoryCap)
  /\ nRemoves' = nRemoves + 1
  /\ UNCHANGED <<subConnIdx, NewSubConnAddrsCh, NewSubConnCh, NewPickerCh, NewStateCh>>
  /\ UNCHANGED <<balancer, pc, call, ret, gotState, gotPicker, nNewSubConn, nUpdates,
                 nAddrUpdates, nEmptyUpdates, nReads, published, rrVars, tcc2Vars>>

\* UpdateState, lines 132-136: log, drain NewStateCh if it holds a value
UpdateStateBegin(bs) ==
  /\ pc = "idle"
  /\ nUpdates < MaxUpdates
  /\ call' = [op |-> "UpdateState", bs |-> bs, pub |-> nUpdates + 1]
  /\ nUpdates' = nUpdates + 1
  /\ published' = bs
  /\ NewStateCh' = TryRecv(NewStateCh)
  /\ pc' = "UpdateState_sendState"
  /\ UNCHANGED <<subConnIdx, NewSubConnAddrsCh, NewSubConnCh, RemoveSubConnCh, NewPickerCh>>
  /\ UNCHANGED <<balancer, ret, gotState, gotPicker, nNewSubConn, nRemoves,
                 nAddrUpdates, nEmptyUpdates, nReads, rrVars, tcc2Vars>>

\* a policy under test calls tcc.UpdateState(bs)
UpdateState ==
  /\ balancer = "policy"
  /\ \E bs \in UpdateStateArgs(nUpdates + 1) : UpdateStateBegin(bs)

\* UpdateState, line 137: tcc.NewStateCh <- bs.ConnectivityState (blocks while full)
UpdateStateSendState ==
  /\ pc = "UpdateState_sendState"
  /\ CanSend(NewStateCh, LatestCap)
  /\ NewStateCh' = Append(NewStateCh, [val |-> call.bs.ConnectivityState, pub |-> call.pub])
  /\ pc' = "UpdateState_drainPicker"
  /\ UNCHANGED <<subConnIdx, NewSubConnAddrsCh, NewSubConnCh, RemoveSubConnCh, NewPickerCh>>
  /\ UNCHANGED <<balancer, call, ret, gotState, gotPicker, nNewSubConn, nRemoves, nUpdates,
                 nAddrUpdates, nEmptyUpdates, nReads, published, rrVars, tcc2Vars>>

\* mutant: the second select drains NewStateCh again
UpdateStateDrainWrongChannel ==
  /\ pc = "UpdateState_drainPicker"
  /\ NewStateCh' = TryRecv(NewStateCh)
  /\ pc' = "UpdateState_sendPicker"
  /\ UNCHANGED <<subConnIdx, NewSubConnAddrsCh, NewSubConnCh, RemoveSubConnCh, NewPickerCh>>
  /\ UNCHANGED <<balancer, call, ret, gotState, gotPicker, nNewSubConn, nRemoves, nUpdates,
                 nAddrUpdates, nEmptyUpdates, nReads, published, rrVars, tcc2Vars>>

\* mutant: the picker is offered the way the history channels are offered
\* (select with default, no drain) and the call returns
UpdateStateOfferPicker ==
  /\ pc = "UpdateState_drainPicker"
  /\ NewPickerCh' = TrySend(NewPickerCh, [val |-> call.bs.Picker, pub |-> call.pub], LatestCap)
  /\ pc' = "idle"
  /\ call' = NoCall
  /\ UNCHANGED <<subConnIdx, NewSubConnAddrsCh, NewSubConnCh, RemoveSubConnCh, NewStateCh>>
  /\ UNCHANGED <<balancer, ret, gotState, gotPicker, nNewSubConn, nRemoves, nUpdates,
                 nAddrUpdates, nEmptyUpdates, nReads, published, rrVars, tcc2Vars>>

\* UpdateState, lines 139-142: drain NewPickerCh if it holds a value
UpdateStateDrainPicker ==
  /\ pc = "UpdateState_drainPicker"
  /\ NewPickerCh' = TryRecv(NewPickerCh)
  /\ pc' = "UpdateState_sendPicker"
  /\ UNCHANGED <<subConnIdx, NewSubConnAddrsCh, NewSubConnCh, RemoveSubConnCh, NewStateCh>>
  /\ UNCHANGED <<balancer, call, ret, gotState, gotPicker, nNewSubConn, nRemoves, nUpdates,
                 nAddrUpdates, nEmptyUpdates, nReads, published, rrVars, tcc2Vars>>

\* UpdateState, line 143: tcc.NewPickerCh <- bs.Picker (blocks while full), return
UpdateStateSendPicker ==
  /\ pc = "UpdateState_sendPicker"
  /\ CanSend(NewPickerCh, LatestCap)
  /\ NewPickerCh' = Append(NewPickerCh, [val |-> call.bs.Picker, pub |-> call.pub])
  /\ pc' = "idle"
  /\ call' = NoCall
  /\ UNCHANGED <<subConnIdx, NewSubConnAddrsCh, NewSubConnCh, RemoveSubConnCh, NewStateCh>>
  /\ UNCHANGED <<balancer, ret, gotState, gotPicker, nNewSubConn, nRemoves, nUpdates,
                 nAddrUpdates, nEmptyUpdates, nReads, published, rrVars, tcc2Vars>>

\* mutant: the unsupported call empties the latest-value channels before it panics
UnsupportedDrainsFirst ==
  /\ balancer = "policy"
  /\ pc = "idle"
  /\ \E op \in {"UpdateBalancerState", "ResolveNow", "Target"} :
       ret' = [op |-> op, panic |-> "not implemented"]
  /\ pc' = "panicked"
  /\ NewStateCh' = TryRecv(NewStateCh)
  /\ NewPickerCh' = TryRecv(NewPickerCh)
  /\ UNCHANGED <<call, subConnIdx, NewSubConnAddrsCh, NewSubConnCh, RemoveSubConnCh>>
  /\ UNCHANGED <<balancer, gotState, gotPicker, nNewSubConn, nRemoves, nUpdates,
                 nAddrUpdates, nEmptyUpdates, nReads, published, rrVars, tcc2Vars>>

\* UpdateBalancerState, ResolveNow, Target: panic("not implemented")
UnsupportedOps == {"UpdateBalancerState", "ResolveNow", "Target"}

Unsupported ==
  /\ balancer = "policy"
  /\ pc = "idle"
  /\ \E op \in UnsupportedOps : ret' = [op |-> op, panic |-> "not implemented"]
  /\ pc' = "panicked"
  /\ UNCHANGED <<call, tccVars>>
  /\ UNCHANGED <<balancer, gotState, gotPicker, nNewSubConn, nRemoves, nUpdates,
                 nAddrUpdates, nEmptyUpdates, nReads, published, rrVars, tcc2Vars>>

\* ======================================================= testConstBalancer
\* the address lists of the resolver states delivered to the fixture when
\* subConnIdx is k: one without addresses, one with
ResolverStates(k) == {<<>>, Addresses(k)}

\* mutant: an empty address list is passed on to NewSubConn
NoAddressesNever(addrs) == FALSE

\* mutant: a single address counts as none
NoAddressesOrOne(addrs) == Len(addrs) <= 1

\* len(s.ResolverState.Addresses) == 0
NoAddresses(addrs) == Len(addrs) = 0

\* UpdateClientConnState: return nil on an empty address list, else
\* tb.cc.NewSubConn(s.ResolverState.Addresses, balancer.NewSubConnOptions{})
UpdateClientConnState ==
  /\ balancer = "testConstBalancer"
  /\ pc = "idle"
  /\ \E addrs \in ResolverStates(subConnIdx) :
       /\ Len(addrs) = 0 => nEmptyUpdates < MaxEmptyUpdates
       /\ nAddrUpdates' = IF Len(addrs) > 0 THEN nAddrUpdates + 1 ELSE nAddrUpdates
       /\ nEmptyUpdates' = IF Len(addrs) = 0 THEN nEmptyUpdates + 1 ELSE nEmptyUpdates
       /\ IF NoAddresses(addrs)
            THEN /\ ret' = [op |-> "UpdateClientConnState", err |-> "nil"]
                 /\ UNCHANGED <<pc, call, tccVars>>
                 /\ UNCHANGED <<balancer, gotState, gotPicker, nNewSubConn, nRemoves,
                                nUpdates, nReads, published, rrVars, tcc2Vars>>
            ELSE NewSubConnBegin(addrs)

\* the connectivity states and SubConns reported to UpdateSubConnState
SubConnStates == {"Idle", "Connecting", "Ready", "TransientFailure", "Shutdown"}
ReportedSubConns == {TestSubConns[i] : i \in 1..TestSubConnsCount}

\* mutant: the reported state is published, with a picker of the reported SubConn
UpdateSubConnStateForwards ==
  /\ balancer = "testConstBalancer"
  /\ \E sc \in ReportedSubConns, state \in SubConnStates :
       UpdateStateBegin(State(state, TestConstPicker("nil", sc)))

\* UpdateSubConnState(sc, state): tb.cc.UpdateState(Ready, const error picker),
\* whatever sc and state are
UpdateSubConnState ==
  /\ balancer = "testConstBalancer"
  /\ \E sc \in ReportedSubConns, state \in SubConnStates :
       UpdateStateBegin(ConstBalancerState)

\* ResolverError: panic("not implemented")
ResolverError ==
  /\ balancer = "testConstBalancer"
  /\ pc = "idle"
  /\ ret' = [op |-> "ResolverError", panic |-> "not implemented"]
  /\ pc' = "panicked"
  /\ UNCHANGED <<call, tccVars>>
  /\ UNCHANGED <<balancer, gotState, gotPicker, nNewSubConn, nRemoves, nUpdates,
                 nAddrUpdates, nEmptyUpdates, nReads, published, rrVars, tcc2Vars>>

\* ============================================================== the reader
\* the test receives from a channel of the TestClientConn: v := <-ch
CanRead == pc # "panicked" /\ nReads < MaxReads

ReadNewSubConnAddrsCh ==
  /\ CanRead /\ Len(NewSubConnAddrsCh) > 0
  /\ NewSubConnAddrsCh' = Tail(NewSubConnAddrsCh)
  /\ nReads' = nReads + 1
  /\ UNCHANGED <<subConnIdx, NewSubConnCh, RemoveSubConnCh, NewPickerCh, NewStateCh>>
  /\ UNCHANGED <<balancer, pc, call, ret, gotState, gotPicker, nNewSubConn, nRemoves,
                 nUpdates, nAddrUpdates, nEmptyUpdates, published, rrVars, tcc2Vars>>

ReadNewSubConnCh ==
  /\ CanRead /\ Len(NewSubConnCh) > 0
  /\ NewSubConnCh' = Tail(NewSubConnCh)
  /\ nReads' = nReads + 1
  /\ UNCHANGED <<subConnIdx, NewSubConnAddrsCh, RemoveSubConnCh, NewPickerCh, NewStateCh>>
  /\ UNCHANGED <<balancer, pc, call, ret, gotState, gotPicker, nNewSubConn, nRemoves,
                 nUpdates, nAddrUpdates, nEmptyUpdates, published, rrVars, tcc2Vars>>

ReadRemoveSubConnCh ==
  /\ CanRead /\ Len(RemoveSubConnCh) > 0
  /\ RemoveSubConnCh' = Tail(RemoveSubConnCh)
  /\ nReads' = nReads + 1
  /\ UNCHANGED <<subConnIdx, NewSubConnAddrsCh, NewSubConnCh, NewPickerCh, NewStateCh>>
  /\ UNCHANGED <<balancer, pc, call, ret, gotState, gotPicker, nNewSubConn, nRemoves,
                 nUpdates, nAddrUpdates, nEmptyUpdates, published, rrVars, tcc2Vars>>

ReadNewStateCh ==
  /\ CanRead /\ Len(NewStateCh) > 0
  /\ gotState' = Head(NewStateCh)
  /\ NewStateCh' = Tail(NewStateCh)
  /\ nReads' = nReads + 1
  /\ UNCHANGED <<subConnIdx, NewSubConnAddrsCh, NewSubConnCh, RemoveSubConnCh, NewPickerCh>>
  /\ UNCHANGED <<balancer, pc, call, ret, gotPicker, nNewSubConn, nRemoves,
                 nUpdates, nAddrUpdates, nEmptyUpdates, published, rrVars, tcc2Vars>>

ReadNewPickerCh ==
  /\ CanRead /\ Len(NewPickerCh) > 0
  /\ gotPicker' = Head(NewPickerCh)
  /\ NewPickerCh' = Tail(NewPickerCh)
  /\ nReads' = nReads + 1
  /\ UNCHANGED <<subConnIdx, NewSubConnAddrsCh, NewSubConnCh, RemoveSubConnCh, NewStateCh>>
  /\ UNCHANGED <<balancer, pc, call, ret, gotState, nNewSubConn, nRemoves,
                 nUpdates, nAddrUpdates, nEmptyUpdates, published, rrVars, tcc2Vars>>

\* the test receives a creation event: an address slice from NewSubConnAddrsCh
\* and a SubConn from NewSubConnCh
ReadCreation ==
  /\ CanRead /\ Len(NewSubConnAddrsCh) > 0 /\ Len(NewSubConnCh) > 0
  /\ NewSubConnAddrsCh' = Tail(NewSubConnAddrsCh)
  /\ NewSubConnCh' = Tail(NewSubConnCh)
  /\ nReads' = nReads + 1
  /\ UNCHANGED <<subConnIdx, RemoveSubConnCh, NewPickerCh, NewStateCh>>
  /\ UNCHANGED <<balancer, pc, call, ret, gotState, gotPicker, nNewSubConn, nRemoves,
                 nUpdates, nAddrUpdates, nEmptyUpdates, published, rrVars, tcc2Vars>>

\* ================================================= a second TestClientConn
\* NewTestClientConn: empty channels, subConnIdx 0
NewTestClientConn ==
  [subConnIdx |-> 0, NewSubConnAddrsCh |-> <<>>, NewSubConnCh |-> <<>>,
   RemoveSubConnCh |-> <<>>, NewPickerCh |-> <<>>, NewStateCh |-> <<>>]

\* the second TestClientConn is made by NewTestClientConn too
InitTcc2 == tcc2 = NewTestClientConn /\ ret2 = NoRet /\ nCalls2 = 0

\* mutant: the cursor into TestSubConns is one for the process; the second
\* TestClientConn claims and advances the cursor of the first
NewSubConn2SharedCursor ==
  /\ nCalls2 < MaxCalls2
  /\ subConnIdx < TestSubConnsCount
  /\ \E a \in AddressArgs(subConnIdx) :
       LET sc == ClaimSubConn(subConnIdx)
       IN /\ tcc2' = [tcc2 EXCEPT !.NewSubConnAddrsCh = TrySend(@, a, HistoryCap),
                                   !.NewSubConnCh = TrySend(@, sc, HistoryCap)]
          /\ subConnIdx' = AdvanceCursor(subConnIdx)
          /\ ret2' = [op |-> "NewSubConn", sc |-> sc, err |-> "nil"]
  /\ nCalls2' = nCalls2 + 1
  /\ UNCHANGED <<NewSubConnAddrsCh, NewSubConnCh, RemoveSubConnCh, NewPickerCh, NewStateCh>>
  /\ UNCHANGED <<procVars, rrVars>>

\* tcc2.NewSubConn(a, o) below the end of the pool, the whole call: claim
\* TestSubConns[tcc2.subConnIdx], advance tcc2's cursor, offer a and sc to
\* tcc2's channels, return sc, nil
NewSubConn2 ==
  /\ nCalls2 < MaxCalls2
  /\ tcc2.subConnIdx < TestSubConnsCount
  /\ \E a \in AddressArgs(tcc2.subConnIdx) :
       LET sc == ClaimSubConn(tcc2.subConnIdx)
       IN /\ tcc2' = [tcc2 EXCEPT !.subConnIdx = AdvanceCursor(@),
                                   !.NewSubConnAddrsCh = TrySend(@, a, HistoryCap),
                                   !.NewSubConnCh = TrySend(@, sc, HistoryCap)]
          /\ ret2' = [op |-> "NewSubConn", sc |-> sc, err |-> "nil"]
  /\ nCalls2' = nCalls2 + 1
  /\ UNCHANGED <<tccVars, procVars, rrVars>>

\* tcc2.RemoveSubConn(sc): offer sc to tcc2's RemoveSubConnCh
RemoveSubConn2 ==
  /\ nCalls2 < MaxCalls2
  /\ \E sc \in RemoveArgs(nCalls2) :
       tcc2' = [tcc2 EXCEPT !.RemoveSubConnCh = TrySend(@, sc, HistoryCap)]
  /\ nCalls2' = nCalls2 + 1
  /\ UNCHANGED <<ret2, tccVars, procVars, rrVars>>

\* tcc2.UpdateState(bs), the whole call with nobody receiving: drain and
\* send on tcc2's NewStateCh, then on its NewPickerCh
UpdateState2 ==
  /\ nCalls2 < MaxCalls2
  /\ \E bs \in UpdateStateArgs(nCalls2 + 1) :
       tcc2' = [tcc2 EXCEPT
                  !.NewStateCh = Append(TryRecv(@), [val |-> bs.ConnectivityState,
                                                     pub |-> nCalls2 + 1]),
                  !.NewPickerCh = Append(TryRecv(@), [val |-> bs.Picker,
                                                      pub |-> nCalls2 + 1])]
  /\ nCalls2' = nCalls2 + 1
  /\ UNCHANGED <<ret2, tccVars, procVars, rrVars>>

\* ========================================================== specifications
\* the balancers built on a TestClientConn in the runs
Balancers == {"policy", "testConstBalancer"}

\* NewTestClientConn: empty channels, subConnIdx 0; Build(cc) of balancer b
InitTcc(b) ==
  /\ subConnIdx = 0
  /\ NewSubConnAddrsCh = <<>>
  /\ NewSubConnCh = <<>>
  /\ RemoveSubConnCh = <<>>
  /\ NewPickerCh = <<>>
  /\ NewStateCh = <<>>
  /\ balancer = b
  /\ pc = "idle" /\ call = NoCall /\ ret = NoRet
  /\ gotState = NoValue /\ gotPicker = NoValue
  /\ nNewSubConn = 0 /\ nRemoves = 0 /\ nUpdates = 0 /\ nAddrUpdates = 0 /\ nEmptyUpdates = 0
  /\ nReads = 0
  /\ published = NoState

\* IsRoundRobin(w, f) not yet called
InitRR(w) ==
  /\ want = w
  /\ wantSet = EmptyWantSet
  /\ gotSliceFirstIteration = <<>>
  /\ gotSliceSecondIteration = <<>>
  /\ rrpc = "start" /\ rrErr = NoErr /\ picked = <<>>

Init == (\E b \in Balancers : InitTcc(b)) /\ InitRR(<<>>) /\ tc = NoClosure /\ InitTcc2

Next ==
  \/ NewSubConn
  \/ NewSubConnSendSC
  \/ RemoveSubConn
  \/ UpdateState
  \/ UpdateStateSendState
  \/ UpdateStateDrainPicker
  \/ UpdateStateSendPicker
  \/ Unsupported
  \/ UpdateClientConnState
  \/ UpdateSubConnState
  \/ ResolverError
  \/ ReadNewSubConnAddrsCh
  \/ ReadNewSubConnCh
  \/ ReadRemoveSubConnCh
  \/ ReadNewStateCh
  \/ ReadNewPickerCh

Spec == Init /\ [][Next]_vars

\* the runs of IsRoundRobin: every want up to MaxWant over PickHandles
InitCheck ==
  /\ InitTcc("policy")
  /\ \E w \in SeqsUpTo(PickHandles, MaxWant) : InitRR(w)
  /\ tc = NoClosure
  /\ InitTcc2

NextCheck ==
  \/ IsRoundRobinCall
  \/ FirstIterationPick
  \/ SecondIterationPick

SpecIsRoundRobin == InitCheck /\ [][NextCheck]_vars

\* a policy creating SubConns while the test receives creation events, an
\* address slice and a SubConn at a time
InitCreation == InitTcc("policy") /\ InitRR(<<>>) /\ tc = NoClosure /\ InitTcc2

NextCreation ==
  \/ NewSubConn
  \/ NewSubConnSendSC
  \/ ReadCreation

SpecCreation == InitCreation /\ [][NextCreation]_vars

\* a policy on the first TestClientConn and calls on the second one
InitTwo == InitTcc("policy") /\ InitRR(<<>>) /\ tc = NoClosure /\ InitTcc2

NextTwo ==
  \/ NewSubConn
  \/ NewSubConnSendSC
  \/ RemoveSubConn
  \/ UpdateState
  \/ UpdateStateSendState
  \/ UpdateStateDrainPicker
  \/ UpdateStateSendPicker
  \/ NewSubConn2
  \/ RemoveSubConn2
  \/ UpdateState2

SpecTwo == InitTwo /\ [][NextTwo]_vars

\* the runs of IsRoundRobin(want, tc.next): every want up to MaxWant and every
\* closure cycling through a permutation of it from any index
InitClosure ==
  /\ InitTcc("policy")
  /\ \E w \in SeqsUpTo(PickHandles, MaxWant) :
       /\ InitRR(w)
       /\ tc \in Closures(w)
  /\ InitTcc2

NextClosure ==
  \/ IsRoundRobinCall
  \/ FirstIterationNext
  \/ SecondIterationNext

SpecClosure == InitClosure /\ [][NextClosure]_vars

\* ================================================================== claims
\* occurrences of h in the sequence s
Count(s, h) == Cardinality({i \in 1..Len(s) : s[i] = h})

\* no handle occurs in s more often than in want
WithinWant(s) == \A h \in PickHandles : Count(s, h) <= Count(want, h)

\* s and want hold the same handles with the same multiplicities
PermutationOfWant(s) ==
  /\ Len(s) = Len(want)
  /\ \A h \in PickHandles : Count(s, h) = Count(want, h)

\* every pick of s after the first len(want) repeats the pick one cycle earlier
RepeatsFirstCycle(s) ==
  \A j \in (Len(want) + 1)..Len(s) : s[j] = s[((j - 1) % Len(want)) + 1]

\* the picks s made so far can still be continued to a round robin of want
Conforms(s) ==
  /\ WithinWant(SubSeq(s, 1, IF Len(s) < Len(want) THEN Len(s) ELSE Len(want)))
  /\ RepeatsFirstCycle(s)

\* all of s but its last element
Front(s) == SubSeq(s, 1, Len(s) - 1)

scA == TestSubConns[1]
scB == TestSubConns[2]
scC == TestSubConns[3]

\* C1: IsRoundRobin returns nil exactly when the first len(want) returns of f
\* are a permutation of want and each of the next 2*len(want) returns equals
\* the return one cycle earlier; it returns an error exactly when the returns
\* made so far already rule that out. want=[A,B,C] with f cycling A,B,C and
\* want=[A,A,B] with f cycling A,A,B give nil; want=[A,A,B] with f returning
\* A,B,A,B,... gives an error.
C1_Verdict ==
  rrpc = "done" =>
    /\ rrErr = NoErr <=>
         /\ Len(picked) = 3 * Len(want)
         /\ PermutationOfWant(SubSeq(picked, 1, Len(want)))
         /\ RepeatsFirstCycle(picked)
    /\ rrErr # NoErr <=> ~Conforms(picked)
    /\ (want = <<scA, scB, scC>>
          /\ picked = <<scA, scB, scC, scA, scB, scC, scA, scB, scC>>) => rrErr = NoErr
    /\ (want = <<scA, scA, scB>>
          /\ picked = <<scA, scA, scB, scA, scA, scB, scA, scA, scB>>) => rrErr = NoErr
    /\ (want = <<scA, scA, scB>> /\ Len(picked) >= 4
          /\ SubSeq(picked, 1, 4) = <<scA, scB, scA, scB>>) => rrErr # NoErr

\* weighted round robin with a consistent tie-break is accepted after 9 calls
C1_Witness ==
  /\ rrpc = "done" /\ rrErr = NoErr
  /\ want = <<scA, scA, scB>>
  /\ picked = <<scA, scB, scA, scA, scB, scA, scA, scB, scA>>

\* C2: f is called one call at a time and never after the failing call: a nil
\* return comes after exactly 3*len(want) calls (none for an empty want); an
\* error of the first iteration comes with the first call whose handle is
\* returned more often than want holds it; an error of the second iteration
\* comes with the first call that differs from the first cycle. For
\* want=[A,A,B] and f always returning A the error comes with the third call.
C2_Calls ==
  /\ Len(picked) > 0 => Conforms(Front(picked))
  /\ rrpc # "done" => Conforms(picked)
  /\ rrpc \in {"first", "second"} => Len(picked) < 3 * Len(want)
  /\ rrpc = "start" => picked = <<>>
  /\ rrpc = "first" => Len(picked) < Len(want)
  /\ rrpc = "second" => Len(picked) >= Len(want)
  /\ (rrpc = "done" /\ rrErr = NoErr) => Len(picked) = 3 * Len(want)
  /\ (rrpc = "done" /\ rrErr.msg = "non-roundrobin want") =>
       /\ Len(picked) <= Len(want)
       /\ Count(picked, picked[Len(picked)]) > Count(want, picked[Len(picked)])
       /\ WithinWant(Front(picked))
  /\ (rrpc = "done" /\ rrErr.msg = "non-roundrobin, first iter") =>
       /\ Len(picked) > Len(want)
       /\ picked[Len(picked)] # picked[((Len(picked) - 1) % Len(want)) + 1]
       /\ RepeatsFirstCycle(Front(picked))
  /\ (rrpc = "done" /\ want = <<scA, scA, scB>> /\ \A i \in 1..Len(picked) : picked[i] = scA)
       => Len(picked) = 3 /\ rrErr # NoErr

\* the extra A is reported with the third call
C2_Witness ==
  /\ rrpc = "done" /\ rrErr.msg = "non-roundrobin want"
  /\ want = <<scA, scA, scB>>
  /\ picked = <<scA, scA, scA>>

\* C3: an error of the first iteration carries want and the returns of f so
\* far, the last being the one whose count went negative; an error of the
\* second iteration carries the whole first cycle and the returns of the
\* second iteration so far, the last being the one that differs and the
\* earlier ones matching the first cycle position by position.
C3_ErrorValue ==
  /\ (rrpc = "done" /\ rrErr.msg = "non-roundrobin want") =>
       /\ rrErr.want = want
       /\ rrErr.result = picked
       /\ Len(rrErr.result) >= 1
       /\ Count(rrErr.result, rrErr.result[Len(rrErr.result)])
            = Count(want, rrErr.result[Len(rrErr.result)]) + 1
  /\ (rrpc = "done" /\ rrErr.msg = "non-roundrobin, first iter") =>
       /\ Len(rrErr.first) = Len(want)
       /\ rrErr.first = SubSeq(picked, 1, Len(want))
       /\ rrErr.second = SubSeq(picked, Len(want) + 1, Len(picked))
       /\ Len(rrErr.second) >= 1
       /\ LET n == Len(rrErr.second)
              ref(j) == rrErr.first[((j - 1) % Len(want)) + 1]
          IN /\ rrErr.second[n] # ref(n)
             /\ \A j \in 1..(n - 1) : rrErr.second[j] = ref(j)
  /\ rrpc = "done" => rrErr.msg \in {"nil", "non-roundrobin want", "non-roundrobin, first iter"}
  /\ rrpc # "done" => rrErr = NoErr

\* a mismatch in the second cycle of the second iteration, after a full
\* matching cycle
C3_Witness ==
  /\ rrpc = "done"
  /\ want = <<scA, scA, scB>>
  /\ rrErr = ErrSecondIteration(<<scA, scB, scA>>, <<scA, scB, scA, scB>>)

\* ------------------------------------------------------------ TestClientConn
Min(a, b) == IF a < b THEN a ELSE b

\* the positions inside UpdateState
InUpdateState ==
  pc \in {"UpdateState_sendState", "UpdateState_drainPicker", "UpdateState_sendPicker"}

\* NewSubConn calls that have returned (the panicking call never returns)
ReturnedNewSubConn ==
  IF pc = "NewSubConn_sc" THEN nNewSubConn - 1 ELSE Min(nNewSubConn, TestSubConnsCount)

\* UpdateState calls that have returned
ReturnedUpdates == IF InUpdateState THEN nUpdates - 1 ELSE nUpdates

\* the first n address slices, SubConns created and SubConns removed
FirstAddresses(n) == [i \in 1..n |-> Addresses(i - 1)]
FirstSubConns(n) == [i \in 1..n |-> TestSubConn(i - 1)]
FirstRemoved(n) == [i \in 1..n |-> TestSubConn((i - 1) % TestSubConnsCount)]

\* the k most recent of the first n address slices, SubConns created, removed
LastAddresses(n, k) == [i \in 1..k |-> Addresses(n - k + i - 1)]
LastSubConns(n, k) == [i \in 1..k |-> TestSubConn(n - k + i - 1)]
LastRemoved(n, k) == [i \in 1..k |-> TestSubConn((n - k + i - 1) % TestSubConnsCount)]

\* C4: on a fresh TestClientConn the k-th NewSubConn call, for k up to the
\* pool size, claims and returns TestSubConns[k-1] with a nil error and
\* advances subConnIdx by exactly one, whatever the channels hold and
\* whatever RemoveSubConn, UpdateState calls and reads come in between.
C4_IndexOrder ==
  nNewSubConn <= TestSubConnsCount =>
    /\ subConnIdx = nNewSubConn
    /\ pc = "NewSubConn_sc" => call.sc = TestSubConn(nNewSubConn - 1)
    /\ (ret.op = "NewSubConn") =>
         /\ ReturnedNewSubConn >= 1
         /\ ret.sc = TestSubConn(ReturnedNewSubConn - 1)
         /\ ret.err = "nil"

\* the 16th call returns sc15 with the creation channels refilled after
\* reads and with removals and publications in between
C4_Witness ==
  /\ balancer = "policy" /\ pc = "idle"
  /\ ret = [op |-> "NewSubConn", sc |-> TestSubConn(15), err |-> "nil"]
  /\ nNewSubConn = TestSubConnsCount
  /\ nRemoves > 0 /\ nUpdates > 0 /\ nReads = MaxReads
  /\ Len(NewSubConnCh) = HistoryCap /\ Len(NewSubConnAddrsCh) < HistoryCap

\* what an offer to a full history channel does
OverflowStep ==
  /\ (nNewSubConn' = nNewSubConn + 1 /\ pc' = "NewSubConn_sc"
        /\ Len(NewSubConnAddrsCh) = HistoryCap)
       => NewSubConnAddrsCh' = NewSubConnAddrsCh
  /\ (pc = "NewSubConn_sc" /\ pc' # pc /\ Len(NewSubConnCh) = HistoryCap)
       => /\ NewSubConnCh' = NewSubConnCh
          /\ pc' = "idle"
          /\ ret'.err = "nil"
  /\ (nRemoves' = nRemoves + 1 /\ Len(RemoveSubConnCh) = HistoryCap)
       => /\ RemoveSubConnCh' = RemoveSubConnCh
          /\ pc' = "idle"

\* without reads the history channels hold the first events offered
FirstEventsKept ==
  nReads = 0 =>
    /\ NewSubConnAddrsCh = FirstAddresses(Min(nNewSubConn, HistoryCap))
    /\ NewSubConnCh = FirstSubConns(Min(ReturnedNewSubConn, HistoryCap))
    /\ RemoveSubConnCh = FirstRemoved(Min(nRemoves, HistoryCap))

C6_KeepsMostRecent ==
  (nReads = 0 /\ pc = "idle") =>
    /\ NewSubConnAddrsCh = LastAddresses(nNewSubConn, Min(nNewSubConn, HistoryCap))
    /\ NewSubConnCh = LastSubConns(nNewSubConn, Min(nNewSubConn, HistoryCap))
    /\ RemoveSubConnCh = LastRemoved(nRemoves, Min(nRemoves, HistoryCap))

\* C7: NewStateCh and NewPickerCh never hold more than one value; a value
\* they hold is never of a publication older than the last UpdateState that
\* has returned; and between UpdateState calls each holds exactly the
\* connectivity state, respectively the picker, of the latest call, unless the
\* reader has already received that very value.
C7_LatestOnly ==
  /\ Len(NewStateCh) <= 1 /\ Len(NewPickerCh) <= 1
  /\ \A i \in 1..Len(NewStateCh) : NewStateCh[i].pub >= ReturnedUpdates
  /\ \A i \in 1..Len(NewPickerCh) : NewPickerCh[i].pub >= ReturnedUpdates
  /\ (~InUpdateState /\ nUpdates >= 1) =>
       /\ NewStateCh = IF gotState.pub = nUpdates THEN <<>>
                       ELSE <<[val |-> published.ConnectivityState, pub |-> nUpdates]>>
       /\ NewPickerCh = IF gotPicker.pub = nUpdates THEN <<>>
                        ELSE <<[val |-> published.Picker, pub |-> nUpdates]>>

\* the state of the first publication was read, then a second publication
\* replaced the picker nobody had read
C7_Witness ==
  /\ pc = "idle" /\ nUpdates = 2
  /\ gotState.pub = 1 /\ gotPicker.pub = 0
  /\ Len(NewStateCh) = 1 /\ Len(NewPickerCh) = 1

CallStep ==
  \/ NewSubConnSendSC
  \/ UpdateStateSendState
  \/ UpdateStateDrainPicker
  \/ UpdateStateSendPicker

\* C9: with one goroutine calling and one only reading, a NewSubConn,
\* RemoveSubConn or UpdateState call in progress can always take its next
\* step: the sends to NewStateCh and NewPickerCh find the channel empty and
\* the offers to the history channels never wait.
C9_NeverBlocks ==
  /\ pc = "UpdateState_sendState" => CanSend(NewStateCh, LatestCap)
  /\ pc = "UpdateState_sendPicker" => CanSend(NewPickerCh, LatestCap)
  /\ pc \notin {"idle", "panicked"} => ENABLED CallStep
  /\ (pc = "idle" /\ balancer = "policy" /\ nRemoves < MaxRemoves) => ENABLED RemoveSubConn
  /\ (pc = "idle" /\ balancer = "policy") => ENABLED NewSubConn

\* a second UpdateState about to send its state with nothing read so far and
\* the history channels full
C9_Witness ==
  /\ pc = "UpdateState_sendState" /\ call.pub = 2 /\ nReads = 0
  /\ Len(NewPickerCh) = 1
  /\ Len(NewSubConnCh) = HistoryCap /\ Len(RemoveSubConnCh) = HistoryCap

NotImplementedOps == UnsupportedOps \cup {"ResolverError"}

\* a call that is not implemented has panicked and has not returned
NotImplementedNeverReturns ==
  ret.op \in NotImplementedOps =>
    /\ pc = "panicked"
    /\ ret.panic = "not implemented"
    /\ call = NoCall

\* between calls every one of them can be made, whatever the channels hold
NotImplementedAlwaysFatal ==
  pc = "idle" =>
    /\ balancer = "policy" => ENABLED Unsupported
    /\ balancer = "testConstBalancer" => ENABLED ResolverError

\* the panicking step leaves the channels and the cursor as they are
NotImplementedStep ==
  (pc # "panicked" /\ pc' = "panicked" /\ ret'.op \in NotImplementedOps) =>
    /\ pc = "idle"
    /\ ret'.panic = "not implemented"
    /\ UNCHANGED tccVars
    /\ UNCHANGED <<nNewSubConn, nRemoves, nUpdates, published>>

\* C11: ResolveNow, Target and UpdateBalancerState on the TestClientConn and
\* ResolverError on the testConstBalancer panic in every state they are
\* called in and never return, and the panicking call leaves subConnIdx and
\* the five channels as they were.
C11_Unsupported ==
  /\ []NotImplementedNeverReturns
  /\ []NotImplementedAlwaysFatal
  /\ [][NotImplementedStep]_vars

\* Target panics with a state and a picker in the slots and the history
\* channels holding events
C11_Witness ==
  /\ pc = "panicked" /\ ret = [op |-> "Target", panic |-> "not implemented"]
  /\ Len(NewStateCh) = 1 /\ Len(NewPickerCh) = 1
  /\ subConnIdx = 3 /\ Len(NewSubConnCh) = 3 /\ Len(RemoveSubConnCh) = 2

\* the record a NewSubConn call leaves when indexing past the pool panics
PoolExhausted == [op |-> "NewSubConn", panic |-> "index out of range"]

\* the cursor stays within the pool; only a call at the end of the pool panics
\* with the index error, and a call that returned did so with a SubConn
PoolBounds ==
  /\ subConnIdx \in 0..TestSubConnsCount
  /\ ret = PoolExhausted <=> (pc = "panicked" /\ ret.op = "NewSubConn")
  /\ ret = PoolExhausted =>
       /\ subConnIdx = TestSubConnsCount
       /\ nNewSubConn = TestSubConnsCount + 1
       /\ call = NoCall
  /\ (ret.op = "NewSubConn" /\ pc # "panicked") =>
       /\ ret.err = "nil"
       /\ ret.sc \in {TestSubConns[i] : i \in 1..TestSubConnsCount}
  /\ \A i \in 1..Len(NewSubConnCh) :
       /\ NewSubConnCh[i].id < subConnIdx
       /\ \A j \in 1..(i - 1) : NewSubConnCh[j].id < NewSubConnCh[i].id

\* what a NewSubConn call does below and at the end of the pool
PoolStep ==
  /\ subConnIdx' >= subConnIdx
  /\ (nNewSubConn' = nNewSubConn + 1 /\ subConnIdx < TestSubConnsCount) =>
       /\ pc' = "NewSubConn_sc"
       /\ call'.sc = TestSubConns[subConnIdx + 1]
       /\ subConnIdx' = subConnIdx + 1
  /\ (pc = "NewSubConn_sc" /\ pc' # pc) =>
       /\ pc' = "idle"
       /\ ret'.err = "nil"
       /\ balancer = "policy" => ret'.sc = call.sc
  /\ (nNewSubConn' = nNewSubConn + 1 /\ subConnIdx = TestSubConnsCount) =>
       /\ pc' = "panicked"
       /\ ret' = PoolExhausted
       /\ UNCHANGED tccVars

\* C12: a NewSubConn call made while subConnIdx is below TestSubConnsCount
\* claims TestSubConns[subConnIdx] and returns it with a nil error; a call
\* made at subConnIdx = TestSubConnsCount panics with an index out of range,
\* returns nothing and leaves subConnIdx and the channels as they were; the
\* cursor never decreases, so TestSubConns[0] is handed out once.
C12_PoolExhaustion == []PoolBounds /\ [][PoolStep]_vars

\* the 17th call panics although both creation channels have room
C12_Witness ==
  /\ ret = PoolExhausted /\ pc = "panicked"
  /\ subConnIdx = TestSubConnsCount
  /\ Len(NewSubConnAddrsCh) = HistoryCap - 1 /\ Len(NewSubConnCh) = HistoryCap - 1

\* what a resolver update without addresses does
EmptyUpdateStep ==
  nEmptyUpdates' = nEmptyUpdates + 1 =>
    /\ pc = "idle" /\ pc' = "idle"
    /\ ret' = [op |-> "UpdateClientConnState", err |-> "nil"]
    /\ UNCHANGED tccVars
    /\ UNCHANGED <<balancer, call, published>>
    /\ UNCHANGED <<nNewSubConn, nRemoves, nUpdates, nAddrUpdates>>

\* updates without addresses are never counted as creations
EmptyUpdatesCreateNothing ==
  balancer = "testConstBalancer" =>
    /\ nNewSubConn = nAddrUpdates
    /\ nRemoves = 0
    /\ \A i \in 1..Len(NewSubConnAddrsCh) : Len(NewSubConnAddrsCh[i]) > 0
    /\ (pc = "idle" /\ nEmptyUpdates < MaxEmptyUpdates) => ENABLED UpdateClientConnState

\* C13: UpdateClientConnState with an empty address list returns nil in
\* every state between calls and does nothing else: no NewSubConn,
\* RemoveSubConn or UpdateState call is made, subConnIdx and the five
\* channels are as before, and so is the balancer.
C13_EmptyUpdate == []EmptyUpdatesCreateNothing /\ [][EmptyUpdateStep]_vars

\* two updates without addresses after a creation and a publication
C13_Witness ==
  /\ balancer = "testConstBalancer" /\ pc = "idle"
  /\ nEmptyUpdates = 2 /\ nAddrUpdates = 1 /\ nUpdates = 1
  /\ subConnIdx = 1 /\ NewSubConnCh = <<TestSubConn(0)>>
  /\ Len(NewStateCh) = 1 /\ Len(NewPickerCh) = 1
  /\ ret = [op |-> "UpdateClientConnState", err |-> "nil"]

\* what Pick returns on the error picker of the testConstBalancer
ConstError == [SubConn |-> Nil, err |-> ErrTestConstPicker]

\* everything the testConstBalancer publishes is Ready with the error picker
PublishesReadyAndConstError ==
  balancer = "testConstBalancer" =>
    /\ InUpdateState =>
         /\ call.bs.ConnectivityState = "Ready"
         /\ Pick(call.bs.Picker) = ConstError
         /\ call.pub = nUpdates
    /\ nUpdates >= 1 =>
         /\ published.ConnectivityState = "Ready"
         /\ Pick(published.Picker) = ConstError
    /\ \A i \in 1..Len(NewStateCh) : NewStateCh[i].val = "Ready"
    /\ \A i \in 1..Len(NewPickerCh) : Pick(NewPickerCh[i].val) = ConstError
    /\ (~InUpdateState /\ nUpdates >= 1 /\ gotState.pub # nUpdates) =>
         NewStateCh = <<[val |-> "Ready", pub |-> nUpdates]>>
    /\ (~InUpdateState /\ nUpdates >= 1 /\ gotPicker.pub # nUpdates) =>
         /\ Len(NewPickerCh) = 1
         /\ NewPickerCh[1].pub = nUpdates
         /\ Pick(NewPickerCh[1].val) = ConstError
    /\ (pc = "idle" /\ nUpdates < MaxUpdates) => ENABLED UpdateSubConnState

\* a notification starts one UpdateState call, and the steps of that call
\* create and remove nothing
NotificationStep ==
  balancer = "testConstBalancer" =>
    /\ nUpdates' # nUpdates =>
         /\ nUpdates' = nUpdates + 1
         /\ pc = "idle" /\ pc' = "UpdateState_sendState"
         /\ call'.bs = ConstBalancerState
    /\ (InUpdateState /\ pc' # pc) => nUpdates' = nUpdates
    /\ ((InUpdateState \/ InUpdateState') /\ pc' # pc) =>
         UNCHANGED <<subConnIdx, NewSubConnAddrsCh, NewSubConnCh, RemoveSubConnCh,
                     nNewSubConn, nRemoves>>

\* C14: every UpdateSubConnState call, whatever SubConn and state it reports
\* and whatever subConnIdx is, makes one UpdateState call with Ready and a
\* picker whose Pick returns ErrTestConstPicker and no SubConn; when the call
\* has returned NewStateCh holds Ready and NewPickerCh that picker (unless
\* already received), and no NewSubConn or RemoveSubConn call was made.
C14_Notification == []PublishesReadyAndConstError /\ [][NotificationStep]_vars

\* two notifications to a balancer that never created a SubConn
C14_Witness ==
  /\ balancer = "testConstBalancer" /\ pc = "idle"
  /\ subConnIdx = 0 /\ nNewSubConn = 0 /\ nUpdates = 2
  /\ NewStateCh = <<[val |-> "Ready", pub |-> 2]>>
  /\ Len(NewPickerCh) = 1 /\ Pick(NewPickerCh[1].val) = ConstError
  /\ NewSubConnCh = <<>> /\ RemoveSubConnCh = <<>>

\* C15: in every reachable state NewSubConnAddrsCh, NewSubConnCh and
\* RemoveSubConnCh each hold at most 10 values and NewStateCh and NewPickerCh
\* each at most 1: the capacities given by NewTestClientConn are never
\* exceeded, whatever calls and reads are made and however they interleave.
C15_Capacity ==
  /\ Len(NewSubConnAddrsCh) \in 0..HistoryCap
  /\ Len(NewSubConnCh) \in 0..HistoryCap
  /\ Len(RemoveSubConnCh) \in 0..HistoryCap
  /\ Len(NewStateCh) \in 0..LatestCap
  /\ Len(NewPickerCh) \in 0..LatestCap

\* all five channels are full and more was offered to each than it holds
C15_Witness ==
  /\ Len(NewSubConnAddrsCh) = HistoryCap /\ Len(NewSubConnCh) = HistoryCap
  /\ Len(RemoveSubConnCh) = HistoryCap
  /\ Len(NewStateCh) = LatestCap /\ Len(NewPickerCh) = LatestCap
  /\ nNewSubConn > HistoryCap /\ nRemoves > HistoryCap /\ nUpdates > LatestCap
  /\ pc = "idle"

\* ---------------------------------------------------------------- testClosure
\* the cycle of r read from index i (from 0)
Rotate(r, i) == [j \in 1..Len(r) |-> r[((i + j - 1) % Len(r)) + 1]]

\* the index tc had when IsRoundRobin was called: next was called once a pick
StartIndex == (tc.i + 3 * Len(tc.r) - Len(picked)) % Len(tc.r)

\* C16: when f is the next method of a testClosure cycling through a
\* permutation of want, IsRoundRobin(want, f) returns nil after 3*len(want)
\* calls whatever index the closure starts at and whatever the order of want
\* is; the cycle the second iteration is compared against is the closure's
\* slice read from the start index.
C16_AnyOffset ==
  (PermutationOfWant(tc.r) /\ Len(want) > 0) =>
    /\ rrErr = NoErr
    /\ picked = [j \in 1..Len(picked) |-> Rotate(tc.r, StartIndex)[((j - 1) % Len(want)) + 1]]
    /\ gotSliceFirstIteration
         = SubSeq(Rotate(tc.r, StartIndex), 1, Len(gotSliceFirstIteration))
    /\ rrpc \in {"second", "done"} => gotSliceFirstIteration = Rotate(tc.r, StartIndex)
    /\ rrpc = "done" =>
         /\ Len(picked) = 3 * Len(want)
         /\ StartIndex = tc.i

\* want A,B,C against the closure over B,A,C started at its last element:
\* nil after the picks C,B,A three times
C16_Witness ==
  /\ rrpc = "done" /\ rrErr = NoErr
  /\ want = <<scA, scB, scC>>
  /\ tc = testClosure(<<scB, scA, scC>>, 2)
  /\ picked = <<scC, scB, scA, scC, scB, scA, scC, scB, scA>>
  /\ gotSliceFirstIteration = <<scC, scB, scA>>

\* ------------------------------------------------------- creation channels
\* the i-th buffered address slice and the i-th buffered SubConn are of the
\* same NewSubConn call
PairedAt(i) == NewSubConnAddrsCh[i] = Addresses(NewSubConnCh[i].id)

\* the creation channels hold the same calls in the same order; during a
\* call the address slice of that call may be there without its SubConn
CreationChannelsPaired ==
  /\ \A i \in 1..Min(Len(NewSubConnAddrsCh), Len(NewSubConnCh)) : PairedAt(i)
  /\ pc = "idle" => Len(NewSubConnAddrsCh) = Len(NewSubConnCh)
  /\ pc = "NewSubConn_sc" =>
       Len(NewSubConnAddrsCh) \in {Len(NewSubConnCh), Len(NewSubConnCh) + 1}

CreateStep == nNewSubConn' = nNewSubConn + 1 \/ (pc = "NewSubConn_sc" /\ pc' # pc)
RemoveStep == nRemoves' = nRemoves + 1
PublishStep == nUpdates' = nUpdates + 1 \/ (InUpdateState /\ pc' # pc)
SecondStep == nCalls2' = nCalls2 + 1

\* what each call leaves as it was
FrameStep ==
  /\ CreateStep =>
       /\ UNCHANGED <<RemoveSubConnCh, NewStateCh, NewPickerCh>>
       /\ UNCHANGED <<nRemoves, nUpdates, tcc2Vars>>
  /\ RemoveStep =>
       /\ UNCHANGED <<subConnIdx, NewSubConnAddrsCh, NewSubConnCh, NewStateCh, NewPickerCh>>
       /\ UNCHANGED <<nNewSubConn, nUpdates, tcc2Vars>>
       /\ Len(RemoveSubConnCh) < HistoryCap =>
            RemoveSubConnCh'
              = Append(RemoveSubConnCh, TestSubConn(nRemoves % TestSubConnsCount))
  /\ PublishStep =>
       /\ UNCHANGED <<subConnIdx, NewSubConnAddrsCh, NewSubConnCh, RemoveSubConnCh>>
       /\ UNCHANGED <<nNewSubConn, nRemoves, tcc2Vars>>
  /\ SecondStep =>
       /\ UNCHANGED tccVars
       /\ UNCHANGED <<pc, call, ret, nNewSubConn, nRemoves, nUpdates>>
  /\ tcc2' # tcc2 => SecondStep
  /\ (CreateStep \/ RemoveStep \/ PublishStep) => ~SecondStep

\* each TestClientConn hands out the pool by its own cursor, from
\* TestSubConns[0] on
OwnCursor ==
  /\ subConnIdx = Min(nNewSubConn, TestSubConnsCount)
  /\ pc = "NewSubConn_sc" => call.sc = TestSubConn(subConnIdx - 1)
  /\ (ret.op = "NewSubConn" /\ pc # "panicked") =>
       ret.sc = TestSubConn(IF pc = "NewSubConn_sc" THEN subConnIdx - 2 ELSE subConnIdx - 1)
  /\ tcc2.subConnIdx <= nCalls2
  /\ ret2.op = "NewSubConn" => ret2.sc = TestSubConn(tcc2.subConnIdx - 1)
  /\ tcc2.NewSubConnCh = FirstSubConns(Min(tcc2.subConnIdx, HistoryCap))
  /\ (tcc2.subConnIdx = 1 /\ ret2.op = "NewSubConn") => ret2.sc = TestSubConns[1]
  /\ (subConnIdx = 1 /\ ret.op = "NewSubConn") => ret.sc = TestSubConns[1]

\* C18: a NewSubConn call leaves RemoveSubConnCh, NewStateCh and NewPickerCh
\* as they were; a RemoveSubConn call leaves subConnIdx, the creation
\* channels, NewStateCh and NewPickerCh as they were and records any pool
\* SubConn, created by this TestClientConn or not; an UpdateState call leaves
\* subConnIdx and the three history channels as they were; and a call on one
\* TestClientConn leaves the cursor and the channels of the other as they
\* were, so that each of two fresh TestClientConns returns TestSubConns[0]
\* from its first NewSubConn.
C18_Frames == []OwnCursor /\ [][FrameStep]_vars

\* both TestClientConns have returned sc0 from their first NewSubConn, and
\* the first has recorded the removal of sc1, which it never created
C18_Witness ==
  /\ pc = "idle" /\ subConnIdx = 1 /\ tcc2.subConnIdx = 1
  /\ ret = [op |-> "NewSubConn", sc |-> TestSubConns[1], err |-> "nil"]
  /\ ret2 = [op |-> "NewSubConn", sc |-> TestSubConns[1], err |-> "nil"]
  /\ RemoveSubConnCh = <<TestSubConn(0), TestSubConn(1)>>
  /\ nUpdates = 1 /\ Len(NewStateCh) = 1 /\ Len(tcc2.NewStateCh) = 1

====
